---- MODULE Spec2Model ----
(***************************************************************************)
(* Token & identity service of the ParentGuard backend                     *)
(* (backend/services/auth_service.py, backend/auth_deps.py,                *)
(* backend/database.py, backend/routes/auth.py, backend/routes/users.py,   *)
(* backend/routes/control.py).                                             *)
(*                                                                         *)
(* Time is counted in minutes.  A JWT is a record of its claims plus the   *)
(* state of its signature; a claim that is absent from the payload is the  *)
(* value 0 (jti, email) or NoId (user_id).  MongoDB is an external, shared *)
(* store: the documents it holds when the process starts are not written   *)
(* by this process, and JWTs minted earlier stay valid across restarts.    *)
(***************************************************************************)
EXTENDS Integers, FiniteSets, Sequences, TLC

\* ---------------------------------------------------------------- bounds
MaxTicks == 2
MaxMint == 1
MaxUsers == 5

\* ------------------------------------------------------ program constants
ACCESS_TOKEN_EXPIRE_MINUTES == 30
REFRESH_TOKEN_EXPIRE_DAYS == 7
PASSWORD_RESET_TOKEN_EXPIRE_MINUTES == 15
MinutesPerDay == 1440

\* timedelta(days = n), timedelta(minutes = n) in minutes
days(n) == n * MinutesPerDay
minutes(n) == n

\* Amounts by which the clock advances between two requests: half an access
\* lifetime and the blacklist retention period.
Delays == {minutes(15), days(REFRESH_TOKEN_EXPIRE_DAYS + 1)}

Emails == {1, 2}
Passwords == {1, 2}

\* ------------------------------------------------------------ identifiers
\* Documents are inserted without an _id, so MongoDB gives them an ObjectId;
\* create_one returns str(inserted_id) and find_one rewrites _id to str.
\* A string never equals an ObjectId in a query filter.
ObjectId(n) == [t |-> "ObjectId", v |-> n]
str(oid) == [t |-> "str", v |-> oid.v]
NoId == [t |-> "none", v |-> 0]

NoJti == 0
NoEmail == 0

\* bcrypt hash of a password (the salt is not modelled); NoHash: key absent
hash_password(password) == [alg |-> "bcrypt", pw |-> password]
NoHash == [alg |-> "none", pw |-> 0]

\* ------------------------------------------------------------------ state
VARIABLES now, ticks, users, token_blacklist, ttlIndex, storeUp, tokens,
          uuids, sessions, revokeLog, resp, pending, resetLog, children,
          control_settings

vars == <<now, ticks, users, token_blacklist, ttlIndex, storeUp, tokens,
          uuids, sessions, revokeLog, resp, pending, resetLog, children,
          control_settings>>

\* ------------------------------------------------------------ JWT helpers
NoToken == [type |-> "none", user_id |-> NoId, email |-> NoEmail, jti |-> NoJti,
            exp |-> 0, sig |-> "none"]

\* verify_token's two non-payload outcomes
None == [type |-> "None", user_id |-> NoId, email |-> NoEmail, jti |-> NoJti, exp |-> 0]
AttributeError == [type |-> "AttributeError", user_id |-> NoId, email |-> NoEmail,
                   jti |-> NoJti, exp |-> 0]

Payload(T) == [type |-> T.type, user_id |-> T.user_id, email |-> T.email,
               jti |-> T.jti, exp |-> T.exp]

\* jwt.encode(to_encode, SECRET_KEY, algorithm = ALGORITHM)
jwt_encode(to_encode) == [type |-> to_encode.type, user_id |-> to_encode.user_id,
                          email |-> to_encode.email, jti |-> to_encode.jti,
                          exp |-> to_encode.exp, sig |-> "good"]

\* A token whose signature does not verify under SECRET_KEY
Forge(T) == [T EXCEPT !.sig = "bad"]

create_access_token(data, expires_delta, uuid4) ==
    LET expire == IF expires_delta # 0 THEN now + expires_delta
                  ELSE now + minutes(ACCESS_TOKEN_EXPIRE_MINUTES)
    IN jwt_encode([type |-> "access", user_id |-> data.user_id, email |-> data.email,
                   jti |-> uuid4, exp |-> expire])

create_refresh_token(data) ==
    LET expire == now + days(REFRESH_TOKEN_EXPIRE_DAYS)
    IN jwt_encode([type |-> "refresh", user_id |-> data.user_id, email |-> data.email,
                   jti |-> NoJti, exp |-> expire])

\* A decoder that checks the signature and ignores exp
verify_token_no_expiry(T) ==
    IF T.sig # "good" THEN AttributeError
    ELSE Payload(T)

\* jwt.decode raises ExpiredSignatureError when exp <= now, and another
\* exception when the signature does not verify.  The second except clause
\* names jwt.JWTError, which the jwt module does not define: evaluating it
\* raises AttributeError out of verify_token.
verify_token(T) ==
    IF T.sig # "good" THEN AttributeError
    ELSE IF T.exp <= now THEN None
    ELSE Payload(T)

Accepted(T) == verify_token(T) \notin {None, AttributeError}

\* ------------------------------------------------------------- data store
\* role: the "role" key of the document, NoRole when the key is absent
NoRole == "absent"

NoUser == [id |-> NoId, email |-> NoEmail, password |-> NoHash, google_id |-> 0,
           is_active |-> FALSE, role |-> NoRole]

\* Database.find_one: the first matching document with _id rewritten to
\* str; None when nothing matches or when the driver raises.
find_one_users(id) ==
    IF ~storeUp THEN NoUser
    ELSE IF \E u \in users : u.id = id
         THEN LET u == CHOOSE u \in users : u.id = id IN [u EXCEPT !.id = str(u.id)]
         ELSE NoUser

\* The first document of a non-empty set of matches (insertion order)
first(S) == CHOOSE u \in S : \A v \in S : u.id.v <= v.id.v

\* Database.find_user_by_email: find_one on the exact string
find_user_by_email(email) ==
    LET S == {u \in users : u.email = email}
    IN IF ~storeUp \/ S = {} THEN NoUser
       ELSE [first(S) EXCEPT !.id = str(first(S).id)]

\* Database.find_user_by_google_id
find_user_by_google_id(google_id) ==
    LET S == {u \in users : u.google_id = google_id}
    IN IF ~storeUp \/ S = {} THEN NoUser
       ELSE [first(S) EXCEPT !.id = str(first(S).id)]

\* Database.update_one("users", {"_id": id}, {"google_id": google_id, ...}):
\* the collection after the call
update_one_users(id, google_id) ==
    IF ~storeUp THEN users
    ELSE {IF u.id = id THEN [u EXCEPT !.google_id = google_id] ELSE u : u \in users}

\* Database.create_user -> create_one: the collection after the call and the
\* returned id (NoId for None).  insert_one raises when the driver fails and
\* when the unique index on email, once initialize_indexes has created it,
\* already holds the same string.
create_user(user_data) ==
    LET oid == ObjectId(1 + Cardinality(users))
    IN IF ~storeUp \/ (ttlIndex /\ \E u \in users : u.email = user_data.email)
       THEN [users |-> users, user_id |-> NoId]
       ELSE [users |-> users \cup {[user_data EXCEPT !.id = oid]}, user_id |-> str(oid)]

\* database.py has no global REFRESH_TOKEN_EXPIRE_DAYS (it is defined in
\* services/auth_service.py and never imported here)
database_globals == {"logger", "mongo_url", "database_name", "client", "database",
                     "Database", "db"}

\* A revocation that blacklists every identifier minted so far
add_to_blacklist_all(jti) ==
    IF storeUp
    THEN token_blacklist \cup
           {[jti |-> T.jti, expires_at |-> now + days(REFRESH_TOKEN_EXPIRE_DAYS + 1)] :
               T \in {A \in tokens : A.type = "access"}}
    ELSE token_blacklist

\* A revocation written as an upsert that keeps the entry only for one access
\* lifetime
add_to_blacklist_upsert(jti) ==
    IF storeUp
    THEN {d \in token_blacklist : d.jti # jti} \cup
           {[jti |-> jti, expires_at |-> now + minutes(ACCESS_TOKEN_EXPIRE_MINUTES)]}
    ELSE token_blacklist

\* Database.add_to_blacklist: the collection after the call.  Evaluating the
\* expiry raises NameError inside the try; the except logs it and the
\* method returns without having inserted anything.
add_to_blacklist(jti) ==
    IF "REFRESH_TOKEN_EXPIRE_DAYS" \in database_globals /\ storeUp
    THEN token_blacklist \cup
           {[jti |-> jti, expires_at |-> now + days(REFRESH_TOKEN_EXPIRE_DAYS + 1)]}
    ELSE token_blacklist

\* A lookup that answers False when the driver raises
is_blacklisted_fail_open(jti) ==
    IF ~storeUp THEN FALSE
    ELSE \E d \in token_blacklist : d.jti = jti

\* Database.is_blacklisted, awaited
is_blacklisted(jti) ==
    IF ~storeUp THEN TRUE
    ELSE \E d \in token_blacklist : d.jti = jti

\* ------------------------------------------------------------ dependencies
Reject(status, detail, called) ==
    [status |-> status, detail |-> detail, admitted |-> FALSE, payload |-> None,
     called |-> called, queried |-> 0]

Admit(payload, called, queried) ==
    [status |-> 200, detail |-> "", admitted |-> TRUE, payload |-> payload,
     called |-> called, queried |-> queried]

\* bool(x) of the operand of `or`: a coroutine object is truthy
Truthy(x) == IF x.t = "coroutine" THEN TRUE ELSE x.v

\* A dependency that stops after verify_token
get_current_user_unchecked(T) ==
    LET payload == verify_token(T)
    IN IF payload = AttributeError THEN Reject(500, "Internal Server Error", 0)
       ELSE IF payload = None THEN Reject(401, "Invalid or expired token", 0)
       ELSE Admit(payload, 0, 0)

\* A dependency that looks up the blacklist only when the payload has a jti
\* and lets a payload without one through
get_current_user_jti_optional(T) ==
    LET payload == verify_token(T)
        jti == payload.jti
        coroutine == [t |-> "coroutine", v |-> FALSE]
    IN IF payload = AttributeError THEN Reject(500, "Internal Server Error", 0)
       ELSE IF payload = None THEN Reject(401, "Invalid or expired token", 0)
       ELSE IF jti # NoJti /\ Truthy(coroutine) THEN Reject(401, "Token has been revoked", 1)
       ELSE Admit(payload, 0, 0)

\* auth_deps.get_current_user is a plain def: db.is_blacklisted(jti) is
\* called but not awaited, so the condition sees the coroutine object and
\* the query never runs.
get_current_user(T) ==
    LET payload == verify_token(T)
        jti == payload.jti
        coroutine == [t |-> "coroutine", v |-> FALSE]
    IN IF payload = AttributeError THEN Reject(500, "Internal Server Error", 0)
       ELSE IF payload = None THEN Reject(401, "Invalid or expired token", 0)
       ELSE IF jti = NoJti THEN Reject(401, "Token has been revoked", 0)
       ELSE IF Truthy(coroutine) THEN Reject(401, "Token has been revoked", 1)
       ELSE Admit(payload, 1, 0)

\* routes/users.py get_current_user
users_get_current_user(T) ==
    LET payload == verify_token(T)
    IN IF payload = AttributeError THEN Reject(500, "Internal Server Error", 0)
       ELSE IF payload = None THEN Reject(401, "Invalid or expired token", 0)
       ELSE Admit(payload, 0, 0)

\* JWTBearer.__call__ with a well-formed "Bearer <token>" header
JWTBearer_call(T) ==
    LET payload == verify_token(T)
    IN IF payload = AttributeError THEN Reject(500, "Internal Server Error", 0)
       ELSE IF payload = None THEN Reject(401, "Invalid or expired token", 0)
       ELSE Admit(payload, 0, 0)

\* ---------------------------------------------------------------- requests
NoIdToken == [sub |-> 0, email |-> NoEmail, iss |-> "", sig |-> "none"]

Idle == [op |-> "idle", tok |-> NoToken, jti |-> NoJti, email |-> NoEmail,
         idtoken |-> NoIdToken, child_id |-> NoId,
         status |-> 0, detail |-> "",
         admitted |-> FALSE, payload |-> None, called |-> 0, queried |-> 0,
         result |-> FALSE, issued |-> {}]

Response(op, T, r) ==
    [Idle EXCEPT !.op = op, !.tok = T, !.status = r.status, !.detail = r.detail,
                 !.admitted = r.admitted, !.payload = r.payload,
                 !.called = r.called, !.queried = r.queried]

\* Tokens a client can present: the minted ones and forgeries of the access
\* tokens
Presentable == tokens \cup {Forge(T) : T \in {A \in tokens : A.type = "access"}}

\* The account seeded by seed_data.py
SeedUser == [id |-> ObjectId(1), email |-> 1, password |-> hash_password(1),
             google_id |-> 0, is_active |-> TRUE, role |-> NoRole]

\* The session that login of the seeded account opened at time 0
A0 == jwt_encode([type |-> "access", user_id |-> str(ObjectId(1)), email |-> 1, jti |-> 1,
                  exp |-> minutes(ACCESS_TOKEN_EXPIRE_MINUTES)])
R0 == jwt_encode([type |-> "refresh", user_id |-> str(ObjectId(1)), email |-> 1,
                  jti |-> NoJti, exp |-> days(REFRESH_TOKEN_EXPIRE_DAYS)])

\* A revocation of A0 recorded in the shared store at time 0
Revocation0 == [jti |-> 1, expires_at |-> days(REFRESH_TOKEN_EXPIRE_DAYS + 1)]

\* The deployment at time 0: the seeded account has just logged in, and the
\* shared store may already hold the revocation of that session's access
\* token; the TTL index does not exist until initialize_indexes is called.
Init ==
    /\ now = 0
    /\ ticks = 0
    /\ users = {SeedUser}
    /\ token_blacklist \in {{}, {Revocation0}}
    /\ ttlIndex = FALSE
    /\ storeUp = TRUE
    /\ tokens = {A0, R0}
    /\ uuids = 1
    /\ sessions = {<<A0, R0, 0, [user_id |-> str(ObjectId(1)), email |-> 1]>>}
    /\ revokeLog = {}
    /\ resp = Idle
    /\ pending = {}
    /\ resetLog = {}
    /\ children = {}
    /\ control_settings = {}

\* A request reaching a router that depends on auth_deps.get_current_user
\* (auth, monitoring, admin, payments, security)
GetCurrentUser(T) ==
    /\ resp' = Response("get_current_user", T, get_current_user(T))
    /\ UNCHANGED <<now, ticks, users, token_blacklist, ttlIndex, storeUp, tokens,
                   uuids, sessions, revokeLog, pending,
                   resetLog, children, control_settings>>

\* A request reaching the users router (its own get_current_user)
UsersGetCurrentUser(T) ==
    /\ resp' = Response("users_get_current_user", T, users_get_current_user(T))
    /\ UNCHANGED <<now, ticks, users, token_blacklist, ttlIndex, storeUp, tokens,
                   uuids, sessions, revokeLog, pending,
                   resetLog, children, control_settings>>

\* A request reaching the control router (Depends(jwt_bearer))
JWTBearer(T) ==
    /\ resp' = Response("JWTBearer", T, JWTBearer_call(T))
    /\ UNCHANGED <<now, ticks, users, token_blacklist, ttlIndex, storeUp, tokens,
                   uuids, sessions, revokeLog, pending,
                   resetLog, children, control_settings>>

\* A direct call of AuthService.verify_token on a presented token
VerifyToken(T) ==
    /\ resp' = [Idle EXCEPT !.op = "verify_token", !.tok = T, !.payload = verify_token(T)]
    /\ UNCHANGED <<now, ticks, users, token_blacklist, ttlIndex, storeUp, tokens,
                   uuids, sessions, revokeLog, pending,
                   resetLog, children, control_settings>>

\* bcrypt.checkpw(password, hashed) on a well-formed hash; it raises
\* ValueError on a malformed one, and the caller's user["password"] raises
\* KeyError when the document has no such key.
verify_password(password, hashed) == hashed.alg = "bcrypt" /\ hashed.pw = password

\* revokeLog: the identifiers for which a revocation call has returned
LogRevoke(jti) == revokeLog \cup {jti}

\* POST /api/auth/login.  An exception raised while the password is checked
\* is caught by `except Exception`, which answers 500 'Login failed'.
\* The handler also stamps last_login on the account;
\* the timestamps of an account are not part of its record here.
Login(email, password) ==
    LET user == find_user_by_email(email)
        token_data == [user_id |-> user.id, email |-> user.email]
        access_token == create_access_token(token_data, 0, uuids + 1)
        refresh_token == create_refresh_token(token_data)
    IN /\ (user # NoUser /\ verify_password(password, user.password) /\ user.is_active)
             => uuids < 1 + MaxMint
       /\ IF user = NoUser
          THEN /\ resp' = [Idle EXCEPT !.op = "login", !.email = email, !.status = 401,
                                       !.detail = "Invalid email or password"]
               /\ UNCHANGED <<tokens, uuids, sessions>>
          ELSE IF user.password.alg # "bcrypt"
          THEN /\ resp' = [Idle EXCEPT !.op = "login", !.email = email, !.status = 500,
                                       !.detail = "Login failed"]
               /\ UNCHANGED <<tokens, uuids, sessions>>
          ELSE IF ~verify_password(password, user.password)
          THEN /\ resp' = [Idle EXCEPT !.op = "login", !.email = email, !.status = 401,
                                       !.detail = "Invalid email or password"]
               /\ UNCHANGED <<tokens, uuids, sessions>>
          ELSE IF ~user.is_active
          THEN /\ resp' = [Idle EXCEPT !.op = "login", !.email = email, !.status = 401,
                                       !.detail = "Account is deactivated"]
               /\ UNCHANGED <<tokens, uuids, sessions>>
          ELSE /\ resp' = [Idle EXCEPT !.op = "login", !.email = email, !.status = 200,
                                       !.issued = {access_token, refresh_token}]
               /\ tokens' = tokens \cup {access_token, refresh_token}
               /\ uuids' = uuids + 1
               /\ sessions' = sessions \cup {<<access_token, refresh_token, now, token_data>>}
       /\ UNCHANGED <<now, ticks, users, token_blacklist, ttlIndex, storeUp, revokeLog, pending,
                   resetLog, children, control_settings>>

\* A refresh that does not look at the token's type and resolves the account
\* by the email claim
Refresh_untyped(T) ==
    LET payload == verify_token(T)
        user == find_user_by_email(payload.email)
        token_data == [user_id |-> user.id, email |-> user.email]
        new_access_token == create_access_token(token_data, 0, uuids + 1)
        new_refresh_token == create_refresh_token(token_data)
    IN /\ (Accepted(T) /\ user # NoUser) => uuids < 1 + MaxMint
       /\ IF ~Accepted(T) \/ user = NoUser
          THEN /\ resp' = [Idle EXCEPT !.op = "refresh", !.tok = T, !.status = 401,
                                       !.detail = "Invalid refresh token"]
               /\ UNCHANGED <<tokens, uuids, sessions>>
          ELSE /\ resp' = [Idle EXCEPT !.op = "refresh", !.tok = T, !.status = 200,
                                       !.issued = {new_access_token, new_refresh_token}]
               /\ tokens' = tokens \cup {new_access_token, new_refresh_token}
               /\ uuids' = uuids + 1
               /\ sessions' = sessions \cup
                                {<<new_access_token, new_refresh_token, now, token_data>>}
       /\ UNCHANGED <<now, ticks, users, token_blacklist, ttlIndex, storeUp, revokeLog,
                      pending,
                   resetLog, children, control_settings>>

\* POST /api/auth/refresh
Refresh(T) ==
    LET payload == verify_token(T)
        user == find_one_users(payload.user_id)
        token_data == [user_id |-> user.id, email |-> user.email]
        new_access_token == create_access_token(token_data, 0, uuids + 1)
        new_refresh_token == create_refresh_token(token_data)
    IN /\ (Accepted(T) /\ payload.type = "refresh" /\ user # NoUser /\ user.is_active)
             => uuids < 1 + MaxMint
       /\ IF payload = AttributeError
          THEN /\ resp' = [Idle EXCEPT !.op = "refresh", !.tok = T, !.status = 500,
                                       !.detail = "Token refresh failed"]
               /\ UNCHANGED <<tokens, uuids, sessions>>
          ELSE IF payload = None \/ payload.type # "refresh"
          THEN /\ resp' = [Idle EXCEPT !.op = "refresh", !.tok = T, !.status = 401,
                                       !.detail = "Invalid refresh token"]
               /\ UNCHANGED <<tokens, uuids, sessions>>
          ELSE IF user = NoUser \/ ~user.is_active
          THEN /\ resp' = [Idle EXCEPT !.op = "refresh", !.tok = T, !.status = 401,
                                       !.detail = "User not found or deactivated"]
               /\ UNCHANGED <<tokens, uuids, sessions>>
          ELSE /\ resp' = [Idle EXCEPT !.op = "refresh", !.tok = T, !.status = 200,
                                       !.issued = {new_access_token, new_refresh_token}]
               /\ tokens' = tokens \cup {new_access_token, new_refresh_token}
               /\ uuids' = uuids + 1
               /\ sessions' = sessions \cup
                                {<<new_access_token, new_refresh_token, now, token_data>>}
       /\ UNCHANGED <<now, ticks, users, token_blacklist, ttlIndex, storeUp, revokeLog, pending,
                   resetLog, children, control_settings>>

\* The body of the logout handler, run on the payload its dependency returned.
\* The HTTPException(400) is raised inside the try and caught by
\* `except Exception`, which answers 500.
logout(token_payload) ==
    IF token_payload.jti = NoJti
    THEN [status |-> 500, detail |-> "Logout failed", blacklist |-> token_blacklist,
          log |-> revokeLog]
    ELSE [status |-> 200, detail |-> "Successfully logged out",
          blacklist |-> add_to_blacklist(token_payload.jti),
          log |-> LogRevoke(token_payload.jti)]

\* POST /api/auth/logout: Depends(get_current_user), then the body
Logout(T) ==
    LET dep == get_current_user(T)
        done == logout(dep.payload)
    IN /\ IF ~dep.admitted
          THEN /\ resp' = Response("logout", T, dep)
               /\ UNCHANGED <<token_blacklist, revokeLog>>
          ELSE /\ resp' = [Response("logout", T, dep) EXCEPT !.status = done.status,
                                                            !.detail = done.detail]
               /\ token_blacklist' = done.blacklist
               /\ revokeLog' = done.log
       /\ UNCHANGED <<now, ticks, users, ttlIndex, storeUp, tokens, uuids, sessions, pending,
                   resetLog, children, control_settings>>

\* Identifiers a caller of the store can name: the minted ones and one that
\* was never minted
MintedJtis == {T.jti : T \in tokens} \ {NoJti}
KnownJtis == MintedJtis \cup {uuids + 1}

\* revoke(jti): a direct call of Database.add_to_blacklist that returns
AddToBlacklist(jti) ==
    /\ token_blacklist' = add_to_blacklist(jti)
    /\ revokeLog' = LogRevoke(jti)
    /\ resp' = [Idle EXCEPT !.op = "add_to_blacklist", !.jti = jti, !.status = 200,
                            !.result = jti \in revokeLog]
    /\ UNCHANGED <<now, ticks, users, ttlIndex, storeUp, tokens, uuids, sessions, pending,
                   resetLog, children, control_settings>>

\* is_revoked(jti): a direct, awaited call of Database.is_blacklisted
IsBlacklisted(jti) ==
    /\ resp' = [Idle EXCEPT !.op = "is_blacklisted", !.jti = jti, !.status = 200,
                            !.queried = 1, !.result = is_blacklisted(jti)]
    /\ UNCHANGED <<now, ticks, users, token_blacklist, ttlIndex, storeUp, tokens,
                   uuids, sessions, revokeLog, pending,
                   resetLog, children, control_settings>>

\* Database.initialize_indexes creates the unique index on users.email and
\* then the TTL index on expires_at; when two documents already hold the
\* same email the first create_index raises and nothing is created.
InitializeIndexes ==
    /\ storeUp
    /\ ~ttlIndex
    /\ \A u, v \in users : u.email = v.email => u = v
    /\ ttlIndex' = TRUE
    /\ resp' = Idle
    /\ UNCHANGED <<now, ticks, users, token_blacklist, storeUp, tokens, uuids,
                   sessions, revokeLog, pending,
                   resetLog, children, control_settings>>

\* An entry has lapsed once the clock has passed its expires_at
Lapsed(d) == d.expires_at < now

\* MongoDB's TTL monitor deletes the documents whose expires_at has passed
TTLPurge ==
    /\ storeUp
    /\ ttlIndex
    /\ \E d \in token_blacklist : Lapsed(d)
    /\ token_blacklist' = {d \in token_blacklist : ~Lapsed(d)}
    /\ resp' = Idle
    /\ UNCHANGED <<now, ticks, users, ttlIndex, storeUp, tokens, uuids, sessions,
                   revokeLog, pending,
                   resetLog, children, control_settings>>

\* datetime.utcnow() advances
Tick(d) ==
    /\ ticks < MaxTicks
    /\ now' = now + d
    /\ ticks' = ticks + 1
    /\ resp' = Idle
    /\ UNCHANGED <<users, token_blacklist, ttlIndex, storeUp, tokens, uuids, sessions,
                   revokeLog, pending,
                   resetLog, children, control_settings>>

\* The store becomes unreachable: every driver call raises
StoreFail ==
    /\ storeUp
    /\ storeUp' = FALSE
    /\ resp' = Idle
    /\ UNCHANGED <<now, ticks, users, token_blacklist, ttlIndex, tokens, uuids,
                   sessions, revokeLog, pending,
                   resetLog, children, control_settings>>

StoreRecover ==
    /\ ~storeUp
    /\ storeUp' = TRUE
    /\ resp' = Idle
    /\ UNCHANGED <<now, ticks, users, token_blacklist, ttlIndex, tokens, uuids,
                   sessions, revokeLog, pending,
                   resetLog, children, control_settings>>

Next ==
    \/ \E T \in Presentable : GetCurrentUser(T)
    \/ \E T \in Presentable : UsersGetCurrentUser(T)
    \/ \E T \in Presentable : JWTBearer(T)
    \/ \E T \in Presentable : VerifyToken(T)
    \/ \E email \in Emails, password \in Passwords : Login(email, password)
    \/ \E T \in Presentable : Refresh(T)
    \/ \E T \in Presentable : Logout(T)
    \/ \E jti \in MintedJtis : AddToBlacklist(jti)
    \/ \E jti \in KnownJtis : IsBlacklisted(jti)
    \/ InitializeIndexes
    \/ TTLPurge
    \/ \E d \in Delays : Tick(d)
    \/ StoreFail
    \/ StoreRecover

Spec == Init /\ [][Next]_vars

\* ------------------------------------------------------- account requests
\* Addresses a client can submit: 1 is the seeded account's, 2 is the same
\* address with its local part capitalised differently (EmailStr keeps the
\* case of the local part), 3 is an address no account has.
Addresses == {1, 2, 3}

\* Accounts whose role was set directly in the store (no handler writes a
\* role)
AdminUser == [id |-> ObjectId(2), email |-> 4, password |-> hash_password(1),
              google_id |-> 0, is_active |-> TRUE, role |-> "admin"]
SuperAdminUser == [id |-> ObjectId(3), email |-> 5, password |-> hash_password(1),
                   google_id |-> 0, is_active |-> TRUE, role |-> "super_admin"]

\* Their access tokens, minted by logins at time 0
AdminToken == jwt_encode([type |-> "access", user_id |-> str(ObjectId(2)), email |-> 4,
                          jti |-> 2, exp |-> minutes(ACCESS_TOKEN_EXPIRE_MINUTES)])
SuperAdminToken == jwt_encode([type |-> "access", user_id |-> str(ObjectId(3)), email |-> 5,
                               jti |-> 3, exp |-> minutes(ACCESS_TOKEN_EXPIRE_MINUTES)])

\* Google ID tokens: subject, email, issuer and whether the signature
\* verifies against Google's certificates for GOOGLE_CLIENT_ID
IdTokens == {[sub |-> e, email |-> e, iss |-> i, sig |-> g] :
                e \in {1, 3}, i \in {"accounts.google.com", "evil.com"},
                g \in {"good", "bad"}}

\* verify_google_token's outcomes that are not a google_user
NoGoogleUser == [t |-> "None", google_id |-> 0, email |-> NoEmail]
GoogleAuthError == [t |-> "GoogleAuthError", google_id |-> 0, email |-> NoEmail]

\* AuthService.verify_google_token.  id_token.verify_oauth2_token raises
\* ValueError for a signature that does not verify.  For an issuer outside
\* Google's, the releases of google-auth that check the issuer themselves
\* (library_checks_issuer) raise exceptions.GoogleAuthError, which is not a
\* ValueError and leaves verify_google_token; the older releases return the
\* claims and the method's own test raises ValueError.  `except ValueError`
\* returns None.
verify_google_token(token, library_checks_issuer) ==
    IF token.sig # "good" THEN NoGoogleUser
    ELSE IF token.iss \notin {"accounts.google.com", "https://accounts.google.com"}
         THEN IF library_checks_issuer THEN GoogleAuthError ELSE NoGoogleUser
    ELSE [t |-> "google_user", google_id |-> token.sub, email |-> token.email]

\* register's user_dict
register_user_dict(email, password) ==
    [id |-> NoId, email |-> email, password |-> hash_password(password),
     google_id |-> 0, is_active |-> TRUE, role |-> NoRole]

\* A federated user document without the provider's subject id
google_user_dict_no_subject(google_user) ==
    [id |-> NoId, email |-> google_user.email, password |-> NoHash,
     google_id |-> 0, is_active |-> TRUE, role |-> NoRole]

\* google_auth's user_dict for a new account
google_user_dict(google_user) ==
    [id |-> NoId, email |-> google_user.email, password |-> NoHash,
     google_id |-> google_user.google_id, is_active |-> TRUE, role |-> NoRole]

\* The state at the start of the account requests: the seeded account and
\* its session, an admin and a super-admin account, no request in flight
InitAccounts ==
    /\ now = 0
    /\ ticks = 0
    /\ users = {SeedUser, AdminUser, SuperAdminUser}
    /\ token_blacklist = {}
    /\ ttlIndex = FALSE
    /\ storeUp = TRUE
    /\ tokens = {A0, R0, AdminToken, SuperAdminToken}
    /\ uuids = 3
    /\ sessions = {<<A0, R0, 0, [user_id |-> str(ObjectId(1)), email |-> 1]>>}
    /\ revokeLog = {}
    /\ resp = Idle
    /\ pending = {}
    /\ resetLog = {}
    /\ children = {}
    /\ control_settings = {}

\* A register that skips the lookup by email
RegisterLookup_unchecked(email, password) ==
    /\ Cardinality(users) + Cardinality(pending) < MaxUsers
    /\ resp' = [Idle EXCEPT !.op = "register_lookup", !.email = email]
    /\ pending' = pending \cup
                    {[op |-> "register", doc |-> register_user_dict(email, password)]}
    /\ UNCHANGED <<now, ticks, users, token_blacklist, ttlIndex, storeUp, tokens,
                   uuids, sessions, revokeLog,
                      resetLog, children, control_settings>>

\* POST /api/auth/register up to its first await after the lookup: the
\* conflict answer, or the user document on its way to create_user
RegisterLookup(email, password) ==
    LET existing_user == find_user_by_email(email)
    IN /\ IF existing_user # NoUser
          THEN /\ resp' = [Idle EXCEPT !.op = "register", !.email = email, !.status = 400,
                                       !.detail = "Email already registered"]
               /\ UNCHANGED pending
          ELSE /\ Cardinality(users) + Cardinality(pending) < MaxUsers
               /\ resp' = [Idle EXCEPT !.op = "register_lookup", !.email = email]
               /\ pending' = pending \cup
                               {[op |-> "register", doc |-> register_user_dict(email, password)]}
       /\ UNCHANGED <<now, ticks, users, token_blacklist, ttlIndex, storeUp, tokens,
                      uuids, sessions, revokeLog,
                      resetLog, children, control_settings>>

\* The rest of register: create_user, then the tokens.  The last_login
\* update filters on the string id and matches no document.
RegisterInsert(req) ==
    LET created == create_user(req.doc)
        token_data == [user_id |-> created.user_id, email |-> req.doc.email]
        access_token == create_access_token(token_data, 0, uuids + 1)
        refresh_token == create_refresh_token(token_data)
    IN /\ req.op = "register"
       /\ pending' = pending \ {req}
       /\ users' = created.users
       /\ IF created.user_id = NoId
          THEN /\ resp' = [Idle EXCEPT !.op = "register", !.email = req.doc.email,
                                       !.status = 500, !.detail = "Failed to create user"]
               /\ UNCHANGED <<tokens, uuids, sessions>>
          ELSE /\ resp' = [Idle EXCEPT !.op = "register", !.email = req.doc.email,
                                       !.status = 201,
                                       !.issued = {access_token, refresh_token}]
               /\ tokens' = tokens \cup {access_token, refresh_token}
               /\ uuids' = uuids + 1
               /\ sessions' = sessions \cup {<<access_token, refresh_token, now, token_data>>}
       /\ UNCHANGED <<now, ticks, token_blacklist, ttlIndex, storeUp, revokeLog,
                      resetLog, children, control_settings>>

\* POST /api/auth/google up to its first await after the lookups.  With a
\* verified token every path that does not create an account ends in
\* `AuthService.create_access_.create_access_token`, an AttributeError that
\* `except Exception` turns into 500.  The link update filters on the string
\* _id that find_one returned.
GoogleLookup(token, library_checks_issuer) ==
    LET google_user == verify_google_token(token, library_checks_issuer)
        by_google_id == find_user_by_google_id(google_user.google_id)
        by_email == find_user_by_email(google_user.email)
        answer == [Idle EXCEPT !.op = "google", !.idtoken = token, !.email = token.email]
        failed == [answer EXCEPT !.status = 500, !.detail = "Google authentication failed"]
    IN /\ IF google_user = GoogleAuthError
          THEN /\ resp' = failed
               /\ UNCHANGED <<users, pending,
                   resetLog, children, control_settings>>
          ELSE IF google_user = NoGoogleUser
          THEN /\ resp' = [answer EXCEPT !.status = 401, !.detail = "Invalid Google token"]
               /\ UNCHANGED <<users, pending,
                   resetLog, children, control_settings>>
          ELSE IF by_google_id # NoUser
          THEN /\ resp' = failed
               /\ UNCHANGED <<users, pending,
                   resetLog, children, control_settings>>
          ELSE IF by_email # NoUser
          THEN /\ resp' = failed
               /\ users' = update_one_users(by_email.id, google_user.google_id)
               /\ UNCHANGED pending
          ELSE /\ Cardinality(users) + Cardinality(pending) < MaxUsers
               /\ resp' = [answer EXCEPT !.op = "google_lookup"]
               /\ pending' = pending \cup
                               {[op |-> "google", doc |-> google_user_dict(google_user)]}
               /\ UNCHANGED users
       /\ UNCHANGED <<now, ticks, token_blacklist, ttlIndex, storeUp, tokens, uuids,
                      sessions, revokeLog,
                      resetLog, children, control_settings>>

\* The rest of google_auth on the create path: create_user, then
\* find_one("users", {"_id": user_id}) with the string id, which returns
\* None, and user["_id"] raises TypeError (500).
GoogleInsert(req) ==
    LET created == create_user(req.doc)
        user == find_one_users(created.user_id)
        answer == [Idle EXCEPT !.op = "google", !.email = req.doc.email, !.status = 500]
    IN /\ req.op = "google"
       /\ pending' = pending \ {req}
       /\ users' = created.users
       /\ IF created.user_id = NoId
          THEN resp' = [answer EXCEPT !.detail = "Failed to create user"]
          ELSE IF user = NoUser
          THEN resp' = [answer EXCEPT !.detail = "Google authentication failed"]
          ELSE resp' = [answer EXCEPT !.detail = "Google authentication failed"]
       /\ UNCHANGED <<now, ticks, token_blacklist, ttlIndex, storeUp, tokens, uuids,
                      sessions, revokeLog,
                      resetLog, children, control_settings>>

\* routes/admin.py verify_admin_access on the payload its dependency returned
verify_admin_access(token_payload) ==
    LET user == find_one_users(token_payload.user_id)
        user_role == IF user.role = NoRole THEN "user" ELSE user.role
    IN IF user = NoUser THEN Reject(404, "User not found", 0)
       ELSE IF user_role \notin {"admin", "super_admin"}
            THEN Reject(403, "Admin access required", 0)
       ELSE Admit(token_payload, 0, 0)

\* routes/security.py verify_admin_user
verify_admin_user(token_payload) ==
    LET user == find_one_users(token_payload.user_id)
    IN IF user = NoUser \/ user.role # "admin"
       THEN Reject(403, "Admin privileges are required for this action.", 0)
       ELSE Admit(token_payload, 0, 0)

\* The admin router's guard, run on the payload of a verified access token
VerifyAdminAccess(T) ==
    /\ Accepted(T)
    /\ resp' = Response("verify_admin_access", T, verify_admin_access(Payload(T)))
    /\ UNCHANGED <<now, ticks, users, token_blacklist, ttlIndex, storeUp, tokens,
                   uuids, sessions, revokeLog, pending,
                   resetLog, children, control_settings>>

\* The security router's guard, run on the payload of a verified access token
VerifyAdminUser(T) ==
    /\ Accepted(T)
    /\ resp' = Response("verify_admin_user", T, verify_admin_user(Payload(T)))
    /\ UNCHANGED <<now, ticks, users, token_blacklist, ttlIndex, storeUp, tokens,
                   uuids, sessions, revokeLog, pending,
                   resetLog, children, control_settings>>

NextAccounts ==
    \/ \E email \in Addresses, password \in Passwords : RegisterLookup(email, password)
    \/ \E req \in pending : RegisterInsert(req)
    \/ \E token \in IdTokens, checks \in BOOLEAN : GoogleLookup(token, checks)
    \/ \E req \in pending : GoogleInsert(req)
    \/ \E email \in Addresses, password \in Passwords : Login(email, password)
    \/ \E T \in tokens : VerifyAdminAccess(T)
    \/ \E T \in tokens : VerifyAdminUser(T)
    \/ InitializeIndexes
    \/ StoreFail
    \/ StoreRecover

SpecAccounts == InitAccounts /\ [][NextAccounts]_vars

\* --------------------------------------------------------- password reset
\* AuthService.create_password_reset_token: the claims are the email, exp
\* and type only
create_password_reset_token(email) ==
    LET expire == now + minutes(PASSWORD_RESET_TOKEN_EXPIRE_MINUTES)
    IN jwt_encode([type |-> "password_reset", user_id |-> NoId, email |-> email,
                   jti |-> NoJti, exp |-> expire])

\* AuthService.verify_password_reset_token
verify_password_reset_token(T) ==
    LET payload == verify_token(T)
    IN IF payload = AttributeError THEN AttributeError
       ELSE IF payload = None \/ payload.type # "password_reset" THEN None
       ELSE payload

\* Database.update_one("users", {"_id": id}, {"password": hashed}): the
\* collection after the call
update_one_users_password(id, hashed) ==
    IF ~storeUp THEN users
    ELSE {IF u.id = id THEN [u EXCEPT !.password = hashed] ELSE u : u \in users}

\* POST /api/auth/request-password-reset.  The token is written to the log,
\* the stand-in for the mail to the account's owner.
RequestPasswordReset(email) ==
    LET user == find_user_by_email(email)
        token == create_password_reset_token(user.email)
        minted == {T \in tokens : T.type = "password_reset"}
    IN /\ (user # NoUser /\ token \notin minted) => Cardinality(minted) < MaxMint
       /\ IF user = NoUser
          THEN /\ resp' = [Idle EXCEPT
                             !.op = "request_password_reset", !.email = email,
                             !.status = 200,
                             !.detail = "If an account with this email exists, a password reset link has been sent."]
               /\ UNCHANGED tokens
          ELSE /\ resp' = [Idle EXCEPT
                             !.op = "request_password_reset", !.email = email,
                             !.status = 200,
                             !.detail = "Password reset link has been sent to your email."]
               /\ tokens' = tokens \cup {token}
       /\ UNCHANGED <<now, ticks, users, token_blacklist, ttlIndex, storeUp, uuids,
                      sessions, revokeLog, pending,
                   resetLog, children, control_settings>>

\* POST /api/auth/reset-password.  The update filters on the string _id that
\* find_one returned; its result is not looked at.  resetLog: the tokens
\* for which the handler has answered 200.
ResetPassword(T, new_password) ==
    LET payload == verify_password_reset_token(T)
        user == find_user_by_email(payload.email)
        hashed_password == hash_password(new_password)
        answer == [Idle EXCEPT !.op = "reset_password", !.tok = T]
    IN /\ IF payload = AttributeError
          THEN /\ resp' = [answer EXCEPT !.status = 500,
                                         !.detail = "Failed to reset password"]
               /\ UNCHANGED <<users, resetLog>>
          ELSE IF payload = None
          THEN /\ resp' = [answer EXCEPT !.status = 400,
                                         !.detail = "Invalid or expired password reset token"]
               /\ UNCHANGED <<users, resetLog>>
          ELSE IF user = NoUser
          THEN /\ resp' = [answer EXCEPT !.status = 404, !.detail = "User not found"]
               /\ UNCHANGED <<users, resetLog>>
          ELSE /\ resp' = [answer EXCEPT !.status = 200,
                                         !.detail = "Password has been reset successfully."]
               /\ users' = update_one_users_password(user.id, hashed_password)
               /\ resetLog' = resetLog \cup {T}
       /\ UNCHANGED <<now, ticks, token_blacklist, ttlIndex, storeUp, tokens, uuids,
                      sessions, revokeLog, pending, children, control_settings>>

\* The account's is_active becomes False in the store: the $set that
\* manage_user's 'suspend' sends, applied to the document
Deactivate(u) ==
    /\ storeUp
    /\ u.is_active
    /\ users' = (users \ {u}) \cup {[u EXCEPT !.is_active = FALSE]}
    /\ resp' = Idle
    /\ UNCHANGED <<now, ticks, token_blacklist, ttlIndex, storeUp, tokens, uuids,
                   sessions, revokeLog, pending,
                   resetLog, children, control_settings>>

\* The state at the start of the password-reset requests: the seeded account
\* and its session
InitReset ==
    /\ now = 0
    /\ ticks = 0
    /\ users = {SeedUser}
    /\ token_blacklist = {}
    /\ ttlIndex = FALSE
    /\ storeUp = TRUE
    /\ tokens = {A0, R0}
    /\ uuids = 1
    /\ sessions = {<<A0, R0, 0, [user_id |-> str(ObjectId(1)), email |-> 1]>>}
    /\ revokeLog = {}
    /\ resp = Idle
    /\ pending = {}
    /\ resetLog = {}
    /\ children = {}
    /\ control_settings = {}

NextReset ==
    \/ \E email \in Emails : RequestPasswordReset(email)
    \/ \E T \in Presentable, password \in Passwords : ResetPassword(T, password)
    \/ \E T \in Presentable : Refresh(T)
    \/ \E email \in Emails, password \in Passwords : Login(email, password)
    \/ \E T \in Presentable : GetCurrentUser(T)
    \/ \E T \in Presentable : UsersGetCurrentUser(T)
    \/ \E T \in Presentable : JWTBearer(T)
    \/ \E u \in users : Deactivate(u)
    \/ \E d \in Delays : Tick(d)

SpecReset == InitReset /\ [][NextReset]_vars

\* The requests through which a token of any type can come to /refresh
NextRefresh ==
    \/ \E email \in Emails : RequestPasswordReset(email)
    \/ \E T \in Presentable : Refresh(T)
    \/ \E email \in Emails, password \in Passwords : Login(email, password)
    \/ \E u \in users : Deactivate(u)
    \/ \E d \in Delays : Tick(d)

SpecRefresh == InitReset /\ [][NextRefresh]_vars

\* --------------------------------------------------------------- children
\* A children document: _id, the owning account's id as a string, the device
\* and its status.  A control_settings document: the child's id as the
\* string of the request path and the blocked packages.
Devices == {1, 2, 3}
Packages == {1}
ChildIds == {str(ObjectId(n)) : n \in 1..3}

NoChild == [id |-> NoId, user_id |-> NoId, device_id |-> 0, status |-> "none"]

\* seed_data.py seed_children: documents written with create_one, so _id is
\* an ObjectId and user_id the string of the parent's id
SeedChild == [id |-> ObjectId(1), user_id |-> str(ObjectId(1)), device_id |-> 1,
              status |-> "online"]
OtherChild == [id |-> ObjectId(2), user_id |-> str(ObjectId(2)), device_id |-> 2,
               status |-> "offline"]

\* Database.find_one("children", {"_id": id, "user_id": user_id}); the
\* returned document has its _id as a string
find_one_children(id, user_id) ==
    LET S == {c \in children : c.id = id /\ c.user_id = user_id}
    IN IF ~storeUp \/ S = {} THEN NoChild
       ELSE LET c == CHOOSE d \in S : TRUE IN [c EXCEPT !.id = str(c.id)]

\* Database.find_one("children", {"device_id": device_id})
find_one_children_by_device(device_id) ==
    LET S == {c \in children : c.device_id = device_id}
    IN IF ~storeUp \/ S = {} THEN NoChild
       ELSE LET c == CHOOSE d \in S : \A e \in S : d.id.v <= e.id.v
            IN [c EXCEPT !.id = str(c.id)]

\* ObjectId generated by the driver for an inserted children document
NextChildId ==
    LET vs == {c.id.v : c \in children}
    IN ObjectId(IF vs = {} THEN 1 ELSE 1 + (CHOOSE m \in vs : \A n \in vs : n <= m))

\* monitoring.verify_child_ownership: the string filter first, then the
\* same filter with ObjectId(child_id); TRUE when a document is found
monitoring_verify_child_ownership(child_id, user_id) ==
    \/ find_one_children(child_id, user_id) # NoChild
    \/ find_one_children(ObjectId(child_id.v), user_id) # NoChild

\* control.verify_child_ownership: the string filter only
control_verify_child_ownership(child_id, user_id) ==
    find_one_children(child_id, user_id) # NoChild

ChildResponse(op, T, child_id, r, status, detail) ==
    [Response(op, T, r) EXCEPT !.child_id = child_id, !.status = status,
                               !.detail = detail]

ChildRejected(op, T, child_id, r) ==
    [Response(op, T, r) EXCEPT !.child_id = child_id]

\* POST /api/users/children.  The document is inserted, then read back with
\* the string id: find_one returns None and the response model fails.
AddChild(T, device_id) ==
    LET r == users_get_current_user(T)
        child_dict == [id |-> NextChildId, user_id |-> r.payload.user_id,
                       device_id |-> device_id, status |-> "offline"]
        created_child == find_one_children(str(NextChildId), r.payload.user_id)
    IN /\ IF ~r.admitted
          THEN /\ resp' = ChildRejected("add_child", T, NoId, r)
               /\ UNCHANGED children
          ELSE IF find_one_children_by_device(device_id) # NoChild
          THEN /\ resp' = ChildResponse("add_child", T, NoId, r, 400,
                                        "Device already registered")
               /\ UNCHANGED children
          ELSE /\ children' = children \cup {child_dict}
               /\ resp' = IF created_child = NoChild
                          THEN ChildResponse("add_child", T, str(NextChildId), r, 500,
                                             "Internal Server Error")
                          ELSE ChildResponse("add_child", T, str(NextChildId), r, 201, "")
       /\ UNCHANGED <<now, ticks, users, token_blacklist, ttlIndex, storeUp, tokens,
                      uuids, sessions, revokeLog, pending, resetLog, control_settings>>

\* GET /api/users/children/{child_id}
GetChild(T, child_id) ==
    LET r == users_get_current_user(T)
        child == find_one_children(child_id, r.payload.user_id)
    IN /\ resp' = IF ~r.admitted THEN ChildRejected("get_child", T, child_id, r)
                  ELSE IF child = NoChild
                  THEN ChildResponse("get_child", T, child_id, r, 404, "Child not found")
                  ELSE ChildResponse("get_child", T, child_id, r, 200, "")
       /\ UNCHANGED <<now, ticks, users, token_blacklist, ttlIndex, storeUp, tokens,
                      uuids, sessions, revokeLog, pending, resetLog, children,
                      control_settings>>

\* Database.update_one("children", {"_id": id, "user_id": user_id},
\* {"status": status}): the collection after the call
update_one_children(id, user_id, status) ==
    IF ~storeUp THEN children
    ELSE {IF c.id = id /\ c.user_id = user_id THEN [c EXCEPT !.status = status] ELSE c :
          c \in children}

\* PUT /api/users/children/{child_id} with a new status
UpdateChild(T, child_id, status) ==
    LET r == users_get_current_user(T)
        user_id == r.payload.user_id
        child == find_one_children(child_id, user_id)
        after == update_one_children(child_id, user_id, status)
    IN /\ IF ~r.admitted
          THEN /\ resp' = ChildRejected("update_child", T, child_id, r)
               /\ UNCHANGED children
          ELSE IF child = NoChild
          THEN /\ resp' = ChildResponse("update_child", T, child_id, r, 404,
                                        "Child not found")
               /\ UNCHANGED children
          ELSE /\ children' = after
               /\ resp' = IF after = children
                          THEN ChildResponse("update_child", T, child_id, r, 404,
                                             "Child not found or no changes made")
                          ELSE ChildResponse("update_child", T, child_id, r, 200, "")
       /\ UNCHANGED <<now, ticks, users, token_blacklist, ttlIndex, storeUp, tokens,
                      uuids, sessions, revokeLog, pending, resetLog, control_settings>>

\* DELETE /api/users/children/{child_id}: delete_one with the string filter,
\* then the child's documents in the other collections
RemoveChild(T, child_id) ==
    LET r == users_get_current_user(T)
        user_id == r.payload.user_id
        matched == IF storeUp
                   THEN {c \in children : c.id = child_id /\ c.user_id = user_id}
                   ELSE {}
    IN /\ IF ~r.admitted
          THEN /\ resp' = ChildRejected("remove_child", T, child_id, r)
               /\ UNCHANGED <<children, control_settings>>
          ELSE IF matched = {}
          THEN /\ resp' = ChildResponse("remove_child", T, child_id, r, 404,
                                        "Child not found")
               /\ UNCHANGED <<children, control_settings>>
          ELSE /\ children' = children \ {CHOOSE c \in matched : TRUE}
               /\ control_settings' = {s \in control_settings : s.child_id # child_id}
               /\ resp' = ChildResponse("remove_child", T, child_id, r, 200, "")
       /\ UNCHANGED <<now, ticks, users, token_blacklist, ttlIndex, storeUp, tokens,
                      uuids, sessions, revokeLog, pending, resetLog>>

\* GET /api/monitoring/{child_id}/calls and the other monitoring handlers:
\* auth_deps.get_current_user, then verify_child_ownership, then the read
GetCallLogs(T, child_id) ==
    LET r == get_current_user(T)
    IN /\ resp' = IF ~r.admitted THEN ChildRejected("get_call_logs", T, child_id, r)
                  ELSE IF ~monitoring_verify_child_ownership(child_id, r.payload.user_id)
                  THEN ChildResponse("get_call_logs", T, child_id, r, 403,
                                     "Child not found or access denied")
                  ELSE ChildResponse("get_call_logs", T, child_id, r, 200, "")
       /\ UNCHANGED <<now, ticks, users, token_blacklist, ttlIndex, storeUp, tokens,
                      uuids, sessions, revokeLog, pending, resetLog, children,
                      control_settings>>

\* POST /api/control/{child_id}/block-app: jwt_bearer, verify_child_ownership,
\* then the settings document is created if absent and its blocked_apps
\* updated (the app_usage collection is not part of the state)
ControlApp(T, child_id, package_name, blocked) ==
    LET r == JWTBearer_call(T)
        found == {s \in control_settings : s.child_id = child_id}
        settings == IF found = {}
                    THEN [child_id |-> child_id, blocked_apps |-> {}]
                    ELSE CHOOSE s \in found : TRUE
        blocked_apps == IF blocked THEN settings.blocked_apps \cup {package_name}
                        ELSE settings.blocked_apps \ {package_name}
    IN /\ IF ~r.admitted
          THEN /\ resp' = ChildRejected("control_app", T, child_id, r)
               /\ UNCHANGED control_settings
          ELSE IF ~control_verify_child_ownership(child_id, r.payload.user_id)
          THEN /\ resp' = ChildResponse("control_app", T, child_id, r, 403,
                                        "Child not found or access denied")
               /\ UNCHANGED control_settings
          ELSE /\ control_settings' = (control_settings \ found) \cup
                                      {[settings EXCEPT !.blocked_apps = blocked_apps]}
               /\ resp' = ChildResponse("control_app", T, child_id, r, 200, "")
       /\ UNCHANGED <<now, ticks, users, token_blacklist, ttlIndex, storeUp, tokens,
                      uuids, sessions, revokeLog, pending, resetLog, children>>

\* The store holds the seeded parent with one child, a child of another
\* account, and possibly the revocation of the parent's access token.
InitChildren ==
    /\ now = 0
    /\ ticks = 0
    /\ users = {SeedUser}
    /\ token_blacklist \in {{}, {Revocation0}}
    /\ ttlIndex = FALSE
    /\ storeUp = TRUE
    /\ tokens = {A0, R0}
    /\ uuids = 1
    /\ sessions = {<<A0, R0, 0, [user_id |-> str(ObjectId(1)), email |-> 1]>>}
    /\ revokeLog = {}
    /\ resp = Idle
    /\ pending = {}
    /\ resetLog = {}
    /\ children = {SeedChild, OtherChild}
    /\ control_settings = {}

NextChildren ==
    \/ \E T \in Presentable, device_id \in Devices : AddChild(T, device_id)
    \/ \E T \in Presentable, child_id \in ChildIds : GetChild(T, child_id)
    \/ \E T \in Presentable, child_id \in ChildIds : UpdateChild(T, child_id, "online")
    \/ \E T \in Presentable, child_id \in ChildIds : RemoveChild(T, child_id)
    \/ \E T \in Presentable, child_id \in ChildIds : GetCallLogs(T, child_id)
    \/ \E T \in Presentable, child_id \in ChildIds, package_name \in Packages,
          blocked \in BOOLEAN :
          ControlApp(T, child_id, package_name, blocked)
    \/ \E d \in Delays : Tick(d)

SpecChildren == InitChildren /\ [][NextChildren]_vars

\* ------------------------------------------------------------------ claims
\* A blacklist entry for jti that has not passed its expires_at
LiveEntry(jti) == \E d \in token_blacklist : d.jti = jti /\ ~Lapsed(d)

\* The largest expires_at recorded for jti (0 when there is no entry)
RejectedUntil(blacklist, jti) ==
    LET E == {d.expires_at : d \in {e \in blacklist : e.jti = jti}}
    IN IF E = {} THEN 0 ELSE CHOOSE m \in E : \A e \in E : e <= m

\* C1: a token that verify_token accepts and whose jti has a non-expired
\* blacklist entry is rejected by get_current_user with 401 'Token has been
\* revoked', whatever requests were served since the entry was recorded.
C1_RevokedTokenRejected ==
    (/\ resp.op = "get_current_user"
     /\ Accepted(resp.tok)
     /\ resp.tok.jti # NoJti
     /\ LiveEntry(resp.tok.jti))
    => (/\ ~resp.admitted
        /\ resp.status = 401
        /\ resp.detail = "Token has been revoked")

\* A revoked, still unexpired token is presented after a later login
C1_Witness ==
    /\ resp.op = "get_current_user"
    /\ Accepted(resp.tok)
    /\ LiveEntry(resp.tok.jti)
    /\ resp.tok.jti \in revokeLog
    /\ uuids > 1
    /\ now > 0
    /\ resp.status = 401

\* C2: on every protected router (auth_deps.get_current_user, the users
\* router's get_current_user, the control router's JWTBearer) a request with
\* an access token whose jti is blacklisted does not reach the handler.
C2_EveryRouterChecksRevocation ==
    (/\ resp.op \in {"get_current_user", "users_get_current_user", "JWTBearer"}
     /\ Accepted(resp.tok)
     /\ resp.tok.type = "access"
     /\ LiveEntry(resp.tok.jti))
    => ~resp.admitted

\* C3: once logout (the revoke call) has returned success for jti,
\* is_blacklisted(jti) is true, and it stays true while the entry recorded
\* for jti has not reached its expires_at.
C3_LogoutRevokes ==
    /\ (resp.op = "logout" /\ resp.status = 200) => is_blacklisted(resp.tok.jti)
    /\ (resp.op = "add_to_blacklist" /\ resp.status = 200) => is_blacklisted(resp.jti)
    /\ \A jti \in revokeLog : LiveEntry(jti) => is_blacklisted(jti)

\* C4: a token that verify_token accepts, that has a jti, and whose jti has no
\* non-expired blacklist entry (store reachable) is admitted by
\* get_current_user with its payload unchanged after one blacklist lookup.
C4_UnrevokedTokenAdmitted ==
    (/\ resp.op = "get_current_user"
     /\ Accepted(resp.tok)
     /\ resp.tok.jti # NoJti
     /\ storeUp
     /\ ~LiveEntry(resp.tok.jti))
    => (/\ resp.admitted
        /\ resp.payload = Payload(resp.tok)
        /\ resp.called = 1)

\* C5: a token that verify_token accepts but that has no jti is rejected by
\* get_current_user with 401 'Token has been revoked' without any call to the
\* blacklist.
C5_NoJtiRejected ==
    (/\ resp.op = "get_current_user"
     /\ Accepted(resp.tok)
     /\ resp.tok.jti = NoJti)
    => (/\ ~resp.admitted
        /\ resp.status = 401
        /\ resp.detail = "Token has been revoked"
        /\ resp.called = 0
        /\ resp.queried = 0)

\* A refresh token (no jti) is presented as bearer token while unexpired
C5_Witness ==
    /\ resp.op = "get_current_user"
    /\ Accepted(resp.tok)
    /\ resp.tok.jti = NoJti
    /\ resp.status = 401

\* C6: while the store is unreachable is_blacklisted answers True and
\* get_current_user admits no request.
C6_FailClosed ==
    ~storeUp => (/\ resp.op = "is_blacklisted" => resp.result
                 /\ resp.op = "get_current_user" => ~resp.admitted)

\* The lookup of a jti that has no entry is answered during an outage
C6_Witness ==
    /\ ~storeUp
    /\ resp.op = "is_blacklisted"
    /\ resp.result
    /\ \A d \in token_blacklist : d.jti # resp.jti

C8_RevokeIdempotent ==
    [][\A jti \in MintedJtis :
         (resp'.op = "add_to_blacklist" /\ resp'.jti = jti /\ resp'.result)
         => (/\ resp'.status = 200
             /\ is_blacklisted(jti)' = is_blacklisted(jti)
             /\ RejectedUntil(token_blacklist', jti) = RejectedUntil(token_blacklist, jti))]_vars

\* A second revocation of the same jti has returned, at a later time than
\* the first
C8_Witness ==
    /\ resp.op = "add_to_blacklist"
    /\ resp.result
    /\ storeUp
    /\ now > 0

\* C9: is_blacklisted treats an entry whose expires_at is in the past as
\* absent, also while the document is still in the collection.
C9_LapsedEntryAbsent ==
    (/\ resp.op = "is_blacklisted"
     /\ storeUp
     /\ \A d \in token_blacklist : d.jti = resp.jti => Lapsed(d))
    => ~resp.result

\* C10: after the access token of a session has been revoked, POST /refresh
\* with the session's unexpired refresh token (account present and active)
\* answers 200 with an access token that has a fresh jti and that
\* get_current_user admits.
C10_RefreshSurvivesLogout ==
    (/\ resp.op = "refresh"
     /\ Accepted(resp.tok)
     /\ resp.tok.type = "refresh"
     /\ storeUp
     /\ \E u \in users : str(u.id) = resp.tok.user_id /\ u.is_active
     /\ \E s \in sessions : s[2] = resp.tok /\ LiveEntry(s[1].jti))
    => (/\ resp.status = 200
        /\ \E N \in resp.issued :
              /\ N.type = "access"
              /\ \A T \in tokens : T.jti = N.jti => T = N
              /\ get_current_user(N).admitted)

\* C11: verify_token never raises to its caller: it returns the payload when
\* the signature is valid and the token unexpired, and None for a bad
\* signature, a corrupt token or an expired token.
C11_VerifyNeverRaises ==
    resp.op = "verify_token"
    => (/\ resp.payload # AttributeError
        /\ (resp.tok.sig # "good" \/ resp.tok.exp <= now) => resp.payload = None
        /\ (resp.tok.sig = "good" /\ resp.tok.exp > now) => resp.payload = Payload(resp.tok))

\* C12: for the claim set c of a session, verify_token of the access token
\* that create_access_token(c) minted returns c's user_id and email with
\* type 'access', a jti and exp at every time strictly before issue time +
\* 30 minutes, and None at every time after it.
C12_AccessRoundTrip ==
    \A s \in sessions :
        (resp.op = "verify_token" /\ resp.tok = s[1])
        => LET issued_at == s[3]
               c == s[4]
           IN /\ now < issued_at + minutes(30)
                    => (/\ resp.payload.user_id = c.user_id
                        /\ resp.payload.email = c.email
                        /\ resp.payload.type = "access"
                        /\ resp.payload.jti # NoJti
                        /\ resp.payload.exp = issued_at + minutes(30))
              /\ now > issued_at + minutes(30) => resp.payload = None

\* The access token of a later login is verified after its 30 minutes
C12_Witness ==
    \E s \in sessions :
        /\ resp.op = "verify_token"
        /\ resp.tok = s[1]
        /\ s[3] > 0
        /\ now > s[3] + minutes(30)
        /\ resp.payload = None

\* C13: password verification fails closed: a login against an account whose
\* stored password hash is absent or malformed ends in the 401 'Invalid
\* email or password' rejection, not in a server error.
C13_LoginFailsClosed ==
    (/\ resp.op = "login"
     /\ find_user_by_email(resp.email) # NoUser
     /\ find_user_by_email(resp.email).password.alg # "bcrypt")
    => (resp.status = 401 /\ resp.detail = "Invalid email or password")

\* C14: a login that fails answers 401 with the same generic message
\* whether or not an account has the submitted email, whatever kind of
\* account it is.
C14_FailedLoginGeneric ==
    (resp.op = "login" /\ resp.status # 200)
    => (resp.status = 401 /\ resp.detail = "Invalid email or password")

lower(email) == IF email = 2 THEN 1 ELSE email

\* C16: no two accounts have the same email, compared case-insensitively,
\* after any interleaving of register and google_auth requests.
C16_EmailUnique ==
    \A u, v \in users : lower(u.email) = lower(v.email) => u = v

\* C17: every account has a password hash, a federated id, or both.
C17_PasswordOrFederated ==
    \A u \in users : u.password # NoHash \/ u.google_id # 0

\* A registered account and an account created by google_auth coexist
C17_Witness ==
    /\ \E u \in users : u.id.v > 3 /\ u.password = NoHash /\ u.google_id # 0
    /\ \E u \in users : u.id.v > 3 /\ u.password # NoHash /\ u.google_id = 0

\* C18: when a verified provider token's email matches a password-based
\* account and no account has the token's federated id, google_auth leaves
\* the number of accounts unchanged and that account gains the federated id
\* with its password hash unchanged.
C18_LinkByEmail ==
    [][(/\ resp'.op = "google"
        /\ resp'.idtoken.sig = "good"
        /\ resp'.idtoken.iss \in {"accounts.google.com", "https://accounts.google.com"}
        /\ storeUp
        /\ \A u \in users : u.google_id # resp'.idtoken.sub
        /\ \E u \in users : u.email = resp'.idtoken.email /\ u.password # NoHash)
       => (/\ Cardinality(users') = Cardinality(users)
           /\ \E u \in users :
                 /\ u.email = resp'.idtoken.email
                 /\ u.password # NoHash
                 /\ [u EXCEPT !.google_id = resp'.idtoken.sub] \in users')]_vars

\* C19: a provider token whose issuer is not in the allow-list, its
\* signature being valid, makes verify_google_token return None, google_auth
\* answer 401, and no account is created, linked or modified.
C19_WrongIssuerRejected ==
    [][(/\ resp'.op = "google"
        /\ resp'.idtoken.sig = "good"
        /\ resp'.idtoken.iss \notin {"accounts.google.com", "https://accounts.google.com"})
       => (/\ resp'.status = 401
           /\ users' = users
           /\ pending' = pending)]_vars

\* require_admin of the specification: the account that the claims' subject
\* names, and the answer it prescribes
Subject(token) == {u \in users : str(u.id) = token.user_id}

\* C20: verify_admin_access and verify_admin_user both answer as
\* require_admin: not-found when the account is absent, forbidden unless its
\* role is admin or super_admin (a missing role counting as user), and
\* admission exactly for those two roles.
C20_AdminGuards ==
    (resp.op \in {"verify_admin_access", "verify_admin_user"} /\ storeUp)
    => IF Subject(resp.tok) = {}
       THEN ~resp.admitted /\ resp.status = 404
       ELSE IF \E u \in Subject(resp.tok) : u.role \in {"admin", "super_admin"}
       THEN resp.admitted
       ELSE ~resp.admitted /\ resp.status = 403

\* C26: for every provider token that verify_google_token accepts, POST
\* /google completes with a token response whose tokens carry the user_id
\* and email of the resolved account.
C26_GoogleCompletes ==
    (/\ resp.op = "google"
     /\ resp.idtoken.sig = "good"
     /\ resp.idtoken.iss \in {"accounts.google.com", "https://accounts.google.com"})
    => (/\ resp.status = 200
        /\ \E N \in resp.issued :
              /\ N.type = "access"
              /\ \E u \in users : str(u.id) = N.user_id /\ u.email = N.email)

\* C27: a refresh or password-reset token in the Authorization header is
\* rejected with 401 by auth_deps.get_current_user, by the users router's
\* get_current_user and by JWTBearer.
C27_OnlyAccessAdmitted ==
    (/\ resp.op \in {"get_current_user", "users_get_current_user", "JWTBearer"}
     /\ resp.tok.sig = "good"
     /\ resp.tok.type # "access")
    => (~resp.admitted /\ resp.status = 401)

\* C28: every create_access_token yields a jti that no earlier token has,
\* and a revocation of j (a direct add_to_blacklist or a logout) leaves the
\* answer of is_blacklisted and of get_current_user as it was for every
\* other jti.
C28_RevocationIsPerToken ==
    [][/\ \A N \in tokens' \ tokens :
             N.type = "access" => (N.jti # NoJti /\ \A T \in tokens : T.jti # N.jti)
       /\ \A T \in {A \in tokens : A.type = "access"} :
             (/\ resp'.op \in {"add_to_blacklist", "logout"}
              /\ resp'.jti # T.jti
              /\ resp'.tok.jti # T.jti)
             => (/\ is_blacklisted(T.jti)' = is_blacklisted(T.jti)
                 /\ get_current_user(T)' = get_current_user(T))]_vars

\* A revocation of one jti has returned while another session's access token
\* exists
C28_Witness ==
    /\ resp.op = "add_to_blacklist"
    /\ storeUp
    /\ \E T \in tokens : T.type = "access" /\ T.jti # resp.jti /\ Accepted(T)

\* C23: POST /refresh mints tokens only for a token that verify_token
\* accepts, whose type is 'refresh' and whose account exists and is active;
\* an access or password-reset token presented as refresh_token gets 401;
\* a rejected call issues no tokens.
C23_RefreshOnlyForRefreshTokens ==
    [][resp'.op = "refresh"
       => (/\ resp'.status = 200
                => (/\ Accepted(resp'.tok)
                    /\ resp'.tok.type = "refresh"
                    /\ \E u \in users : str(u.id) = resp'.tok.user_id /\ u.is_active)
           /\ (Accepted(resp'.tok) /\ resp'.tok.type \in {"access", "password_reset"})
                => resp'.status = 401
           /\ resp'.status # 200
                => (resp'.issued = {} /\ tokens' = tokens /\ sessions' = sessions))]_vars

\* An unexpired password-reset token is presented as refresh_token
C23_Witness ==
    /\ resp.op = "refresh"
    /\ resp.tok.type = "password_reset"
    /\ Accepted(resp.tok)
    /\ resp.status = 401

\* C24: POST /reset-password succeeds only for a token that verify_token
\* accepts and whose type is 'password_reset'; on success the password hash
\* of exactly the account with the token's email is replaced by the hash of
\* the new password and nothing else changes; on rejection nothing changes.
C24_ResetReplacesHash ==
    [][\A T \in Presentable, password \in Passwords :
          ResetPassword(T, password)
          => IF resp'.status = 200
             THEN /\ Accepted(T)
                  /\ T.type = "password_reset"
                  /\ users' = {IF u.email = T.email
                                  THEN [u EXCEPT !.password = hash_password(password)]
                                  ELSE u : u \in users}
             ELSE users' = users]_vars

\* C25: POST /request-password-reset answers with the same status and
\* message whether or not an account has the submitted email.
C25_ResetRequestGeneric ==
    resp.op = "request_password_reset"
    => (/\ resp.status = 200
        /\ resp.detail = "If an account with this email exists, a password reset link has been sent.")

\* Accounts that are deactivated
Deactivated == {u \in users : ~u.is_active}

\* C29: for a deactivated account login and /refresh are rejected, and an
\* access token issued to it before the deactivation is rejected by every
\* authentication dependency.
C29_DeactivatedLockedOut ==
    /\ (resp.op = "login" /\ \E u \in Deactivated : u.email = resp.email)
          => resp.status # 200
    /\ (resp.op = "refresh" /\ \E u \in Deactivated : str(u.id) = resp.tok.user_id)
          => resp.status # 200
    /\ (/\ resp.op \in {"get_current_user", "users_get_current_user", "JWTBearer"}
        /\ resp.tok.type = "access"
        /\ \E u \in Deactivated : str(u.id) = resp.tok.user_id)
          => ~resp.admitted

\* C30: after a successful POST /reset-password with a token, a later POST
\* /reset-password with the same token is rejected and leaves the password
\* hash unchanged.
C30_ResetTokenSingleUse ==
    [][(resp'.op = "reset_password" /\ resp'.tok \in resetLog)
       => (resp'.status # 200 /\ users' = users)]_vars

\* Handlers that take a child_id, and the ownership link they are to check
ChildOps == {"get_child", "update_child", "remove_child", "get_call_logs", "control_app"}
Owns(user_id, child_id) ==
    \E c \in children : str(c.id) = child_id /\ c.user_id = user_id

\* C21: a handler that takes a child_id answers 200 or changes the child's
\* data only if a children record with that _id belongs to the token's
\* user_id; an admitted request for a child that is absent or belongs to
\* another account is rejected as forbidden (403) and changes nothing.
C21_OwnershipOrForbidden ==
    [][(resp'.op \in ChildOps /\ resp'.admitted) =>
         IF Owns(resp'.payload.user_id, resp'.child_id)
         THEN TRUE
         ELSE /\ resp'.status = 403
              /\ children' = children
              /\ control_settings' = control_settings]_vars

\* The guard steps of a request: token valid, not revoked, ownership where
\* the handler takes a child_id
GuardedOps == ChildOps \cup {"add_child"}
Revoked(T) == \E d \in token_blacklist : d.jti = T.jti
GuardsPass(op, T, child_id) ==
    /\ Accepted(T)
    /\ ~Revoked(T)
    /\ op \in ChildOps => Owns(verify_token(T).user_id, child_id)

\* C22: a request that fails a guard step (token invalid, token revoked, or
\* child not owned) ends in a rejection and has written to no collection.
C22_FailedGuardWritesNothing ==
    [][(resp'.op \in GuardedOps /\
        ~GuardsPass(resp'.op, resp'.tok, IF resp'.op = "add_child" THEN NoId
                                         ELSE resp'.child_id)) =>
         /\ resp'.status >= 400
         /\ children' = children
         /\ control_settings' = control_settings
         /\ users' = users
         /\ token_blacklist' = token_blacklist]_vars
====
